---- MODULE Spec2Model ----
(***************************************************************************)
(* A model of .github/validate_links.py, the plugin registry's link        *)
(* validator: is_camel_case, validate_url, validate_repo_path,             *)
(* fetch_plugin_json, validate_plugin and main.                            *)
(*                                                                         *)
(* Conventions.  A Python string is a sequence of one-character strings    *)
(* ("" is << >>).  A message built by an f-string is the sequence of its   *)
(* literal pieces and of the formatted values, so two messages are equal   *)
(* exactly when their texts are.  An HTTP exchange is a record             *)
(* [exc, status, body]: exc # "none" is the requests exception raised.     *)
(* requests is taken at a version (>= 2.27) where Response.json() raises   *)
(* requests.exceptions.JSONDecodeError, a subclass of both                 *)
(* json.JSONDecodeError and requests.exceptions.RequestException.          *)
(***************************************************************************)
EXTENDS Integers, Sequences, FiniteSets, TLC

VARIABLES
    call,        \* unit level: the function called and its arguments
    result,      \* unit level: what the call returned
    pc,          \* main/validate_plugin: the statement about to run
    dirExists,   \* main: plugins_dir.exists()
    files,       \* main: sorted(plugin_files), each with its remote repository
    idx,         \* main: position of the for loop in files
    all_errors,  \* main: all_errors, as a sequence of [file, errors]
    returned,    \* main: the lists validate_plugin returned so far, in order
    exit_code,   \* main: the code given to sys.exit (NoExit while running)
    crashed,     \* main: an uncaught exception ended the process
    plugin,      \* validate_plugin: the parsed record (NoPlugin before parsing)
    errors,      \* validate_plugin: errors
    loc,         \* validate_plugin: results of the calls made so far
    trace        \* validate_plugin: calls made and HTTP requests issued, in order

vars == <<call, result, pc, dirExists, files, idx, all_errors, returned,
          exit_code, crashed, plugin, errors, loc, trace>>

progVars == <<pc, dirExists, files, idx, all_errors, returned, exit_code,
              crashed, plugin, errors, loc, trace>>

unitVars == <<call, result>>

(***************************************************************************)
(* Bounds of the model.                                                    *)
(***************************************************************************)
MaxLen == 3      \* longest string given to is_camel_case at unit level
MaxFiles == 2    \* most *.json files in plugins/

(***************************************************************************)
(* Strings.                                                                *)
(***************************************************************************)
LF == "\n"

Lower == {"a", "b"}

Upper == {"B"}

Digit == {"7"}

Alphabet == Lower \cup Upper \cup Digit \cup {"-", LF}

RECURSIVE StringsUpTo(_)
StringsUpTo(n) ==
    IF n = 0 THEN {<< >>}
    ELSE LET shorter == StringsUpTo(n - 1)
         IN  shorter \cup {Append(s, c) : s \in {t \in shorter : Len(t) = n - 1},
                                          c \in Alphabet}

\* A JSON value that is present, truthy and not a string (a number, a list).
NonString == <<"<non-string>">>

\* A key that the JSON object does not have.
Absent == <<"<absent>">>

DigitChar(d) ==
    CASE d = 0 -> "0" [] d = 1 -> "1" [] d = 2 -> "2" [] d = 3 -> "3"
      [] d = 4 -> "4" [] d = 5 -> "5" [] d = 6 -> "6" [] d = 7 -> "7"
      [] d = 8 -> "8" [] d = 9 -> "9"

\* str(n) for n >= 0, as used by the f-strings that format a status code.
RECURSIVE Dec(_)
Dec(n) ==
    IF n < 10 THEN <<DigitChar(n)>>
    ELSE Append(Dec(n \div 10), DigitChar(n % 10))

(***************************************************************************)
(* is_camel_case: re.match(r'^[a-z][a-zA-Z0-9]*$', s).  Without            *)
(* re.MULTILINE, ^ matches at the start only and $ matches at the end of   *)
(* the string and also just before a newline that ends the string.         *)
(***************************************************************************)
InClassLower(c) == c \in Lower

InClassAlnum(c) == c \in Lower \cup Upper \cup Digit

\* $ at position k (k characters consumed) of s.
DollarMatches(s, k) ==
    \/ k = Len(s)
    \/ k = Len(s) - 1 /\ s[Len(s)] = LF

ReMatchCamel(s) ==
    /\ Len(s) >= 1
    /\ InClassLower(s[1])
    /\ \E k \in 1..Len(s) :
          /\ \A i \in 2..k : InClassAlnum(s[i])
          /\ DollarMatches(s, k)

is_camel_case(s) ==
    IF s = << >> THEN FALSE ELSE ReMatchCamel(s)

(***************************************************************************)
(* HTTP exchanges.                                                         *)
(***************************************************************************)
NoBody == [kind |-> "none", id |-> Absent, name |-> Absent]

Resp(e, st, b) == [exc |-> e, status |-> st, body |-> b]

Status(st) == Resp("none", st, NoBody)

Raises(e) == Resp(e, 0, NoBody)

Exceptions == {"Timeout", "ConnectionError", "RequestException"}

\* str(e) of a requests exception.
ExcText(e) == <<"<", e, ">">>

(***************************************************************************)
(* validate_url(url): HEAD, then GET when HEAD answers 405.                *)
(***************************************************************************)
UrlResult(ok, msg, reqs) == [is_valid |-> ok, error_msg |-> msg, requests |-> reqs]

UrlExcept(e, reqs) ==
    IF e = "Timeout" THEN UrlResult(FALSE, <<"Request timeout">>, reqs)
    ELSE IF e = "ConnectionError" THEN UrlResult(FALSE, <<"Connection error">>, reqs)
    ELSE UrlResult(FALSE, ExcText(e), reqs)

\* UrlJudge with the upper limit of the accepted range off by one.
UrlJudgeInclusive400(st, reqs) ==
    IF st >= 200 /\ st <= 400 THEN UrlResult(TRUE, << >>, reqs)
    ELSE UrlResult(FALSE, <<"HTTP">> \o Dec(st), reqs)

UrlJudge(st, reqs) ==
    IF st >= 200 /\ st < 400 THEN UrlResult(TRUE, << >>, reqs)
    ELSE UrlResult(FALSE, <<"HTTP">> \o Dec(st), reqs)

validate_url(head, get) ==
    IF head.exc # "none" THEN UrlExcept(head.exc, <<"HEAD">>)
    ELSE IF head.status = 405
         THEN IF get.exc # "none" THEN UrlExcept(get.exc, <<"HEAD", "GET">>)
              ELSE UrlJudge(get.status, <<"HEAD", "GET">>)
         ELSE UrlJudge(head.status, <<"HEAD">>)

(***************************************************************************)
(* Repository URLs.  A URL is <<"https:", netloc, part, ...>>: the scheme, *)
(* urlparse(url).netloc and the pieces of parsed.path.strip("/") split at  *)
(* "/".  Python's "".split("/") is [""]: one piece, never none.            *)
(***************************************************************************)
Url(netloc, parts) == <<"https:", netloc>> \o parts

Netloc(url) == url[2]

PathParts(url) == IF Len(url) > 2 THEN SubSeq(url, 3, Len(url)) ELSE <<"">>

\* "gitlab" in netloc, "gitea" in netloc, "forgejo" in netloc: substring
\* tests, tabulated for the host names of the model.
Hosts ==
    {"github.com", "www.github.com", "gitlab.com", "git.gitlab.example",
     "codeberg.org", "gitea.example", "forgejo.example", "example.org"}

ContainsGitlab(netloc) == netloc \in {"gitlab.com", "git.gitlab.example"}

ContainsGitea(netloc) == netloc \in {"gitea.example"}

ContainsForgejo(netloc) == netloc \in {"forgejo.example"}

IsGitHub(netloc) == netloc = "github.com"

IsGitLab(netloc) == netloc = "gitlab.com" \/ ContainsGitlab(netloc)

IsGitea(netloc) ==
    netloc = "codeberg.org" \/ ContainsGitea(netloc) \/ ContainsForgejo(netloc)

\* The hosting family the if/elif chain of both functions selects.
Family(netloc) ==
    IF IsGitHub(netloc) THEN "GitHub"
    ELSE IF IsGitLab(netloc) THEN "GitLab"
    ELSE IF IsGitea(netloc) THEN "Gitea/Forgejo"
    ELSE "unsupported"

(***************************************************************************)
(* validate_repo_path(repo_url, path).  api is the answer of the hosting   *)
(* service's listing API; its body.kind is "emptylist", "json" (any other  *)
(* JSON value) or "malformed".                                             *)
(***************************************************************************)
PathResult(ok, msg, reqs) == [is_valid |-> ok, error_msg |-> msg, requests |-> reqs]

PathNotFound(path) == <<"Path '">> \o path \o <<"' not found in repository">>

PathApiRequest(family) == <<"GET", "api", family>>

validate_repo_path(repo_url, path, api) ==
    LET netloc == Netloc(repo_url)
        family == Family(netloc)
        reqs   == <<PathApiRequest(family)>>
    IN  IF Len(PathParts(repo_url)) < 2
        THEN PathResult(FALSE, <<"Invalid repository URL format">>, << >>)
        ELSE IF family = "unsupported"
        THEN PathResult(TRUE,
                 <<"Warning: Path validation skipped for", netloc,
                   "(unsupported hosting service)">>, << >>)
        ELSE IF api.exc # "none"
        THEN PathResult(FALSE, <<"Failed to check path:">> \o ExcText(api.exc), reqs)
        ELSE IF api.status = 200
        THEN IF family = "GitLab"
             THEN IF api.body.kind = "malformed"
                  THEN \* response.json() raises a RequestException
                       PathResult(FALSE, <<"Failed to check path:">>
                                            \o ExcText("JSONDecodeError"), reqs)
                  ELSE IF api.body.kind = "emptylist"
                  THEN PathResult(FALSE, PathNotFound(path), reqs)
                  ELSE PathResult(TRUE, << >>, reqs)
             ELSE PathResult(TRUE, << >>, reqs)
        ELSE IF api.status = 404
        THEN PathResult(FALSE, PathNotFound(path), reqs)
        ELSE PathResult(FALSE, <<family, "API returned HTTP">> \o Dec(api.status), reqs)

(***************************************************************************)
(* fetch_plugin_json(repo_url, path).  raw maps a ref ("main", "master",   *)
(* "HEAD") to the answer of the raw-file request on it.  A body is         *)
(* [kind, id, name] with kind "malformed", "null", "nondict" or "dict";    *)
(* response.json() of a "null" body is None, which is also what the        *)
(* function returns for "no data".                                         *)
(***************************************************************************)
None == [kind |-> "None", id |-> Absent, name |-> Absent]

FetchResult(d, msg, reqs) == [data |-> d, error_msg |-> msg, requests |-> reqs]

ResponseJson(body) == IF body.kind = "null" THEN None ELSE body

RawRequest(family, ref) == <<"GET", "raw", family, ref>>

PluginJsonPath(path) ==
    IF path # << >> THEN path \o <<"/plugin.json">> ELSE <<"plugin.json">>

InvalidJsonMsg == <<"Invalid JSON in plugin.json:", "<JSONDecodeError>">>

PluginJsonNotFound(path) == <<"plugin.json not found at">> \o PluginJsonPath(path)

FetchFailedStatus(st) == <<"Failed to fetch plugin.json:", "HTTP">> \o Dec(st)

FetchFailedExc(e) == <<"Failed to fetch plugin.json:">> \o ExcText(e)

\* GitHubBranches with the two branch names in the other order.
GitHubBranchesMasterFirst == <<"master", "main">>

\* for branch in ["main", "master"]: ... ; return None, "... not found ..."
GitHubBranches == <<"main", "master">>

RECURSIVE GitHubLoop(_, _, _, _)
GitHubLoop(i, path, raw, reqs) ==
    IF i > Len(GitHubBranches)
    THEN FetchResult(None, PluginJsonNotFound(path), reqs)
    ELSE LET branch   == GitHubBranches[i]
             response == raw[branch]
             sent     == Append(reqs, RawRequest("GitHub", branch))
         IN  IF response.exc # "none"
             THEN GitHubLoop(i + 1, path, raw, sent)
             ELSE IF response.status = 200
             THEN IF response.body.kind = "malformed"
                  THEN FetchResult(None, InvalidJsonMsg, sent)
                  ELSE FetchResult(ResponseJson(response.body), << >>, sent)
             ELSE GitHubLoop(i + 1, path, raw, sent)

\* SingleFetch without its elif for status 404.
SingleFetchNo404Branch(response, path, sent) ==
    IF response.exc # "none"
    THEN FetchResult(None, FetchFailedExc(response.exc), sent)
    ELSE IF response.status = 200
    THEN IF response.body.kind = "malformed"
         THEN FetchResult(None, InvalidJsonMsg, sent)
         ELSE FetchResult(ResponseJson(response.body), << >>, sent)
    ELSE FetchResult(None, FetchFailedStatus(response.status), sent)

\* The single request of the GitLab and Gitea/Forgejo branches.
SingleFetch(response, path, sent) ==
    IF response.exc # "none"
    THEN FetchResult(None, FetchFailedExc(response.exc), sent)
    ELSE IF response.status = 200
    THEN IF response.body.kind = "malformed"
         THEN FetchResult(None, InvalidJsonMsg, sent)
         ELSE FetchResult(ResponseJson(response.body), << >>, sent)
    ELSE IF response.status = 404
    THEN FetchResult(None, PluginJsonNotFound(path), sent)
    ELSE FetchResult(None, FetchFailedStatus(response.status), sent)

fetch_plugin_json(repo_url, path, raw) ==
    LET netloc == Netloc(repo_url)
        family == Family(netloc)
    IN  IF Len(PathParts(repo_url)) < 2
        THEN FetchResult(None, <<"Invalid repository URL format">>, << >>)
        ELSE IF family = "GitHub"
        THEN GitHubLoop(1, path, raw, << >>)
        ELSE IF family = "unsupported"
        THEN FetchResult(None, <<"Unsupported hosting service:", netloc>>, << >>)
        ELSE SingleFetch(raw["HEAD"], path, <<RawRequest(family, "HEAD")>>)

(***************************************************************************)
(* Unit level: one function is called once on arguments drawn from the     *)
(* sets below.                                                             *)
(***************************************************************************)
NoCall == [fn |-> "none"]

NoResult == [done |-> FALSE]

UnitStrings == StringsUpTo(MaxLen)

UrlStatuses == {199, 200, 204, 302, 399, 400, 404, 405, 500}

UrlOutcomes == {Status(st) : st \in UrlStatuses} \cup {Raises(e) : e \in Exceptions}

GoodBody == [kind |-> "dict", id |-> <<"a">>, name |-> <<"Foo">>]

UnitBodies ==
    {[kind |-> "malformed", id |-> Absent, name |-> Absent],
     [kind |-> "null", id |-> Absent, name |-> Absent],
     GoodBody}

RawStatuses == {200, 204, 404, 500}

UnitRaw ==
    {Resp("none", st, b) : st \in RawStatuses, b \in UnitBodies}
        \cup {Raises(e) : e \in Exceptions}

ListingBodies ==
    {[kind |-> k, id |-> Absent, name |-> Absent] : k \in {"emptylist", "json", "malformed"}}

UnitApi ==
    {Resp("none", st, b) : st \in {200, 404, 500}, b \in ListingBodies}
        \cup {Raises(e) : e \in Exceptions}

UnitUrls ==
    {Url(h, <<"owner", "repo">>) : h \in Hosts} \cup {Url("github.com", <<"owner">>)}

UnitPaths == {<< >>, <<"sub">>}

\* The program is not running at unit level.
ProgIdle ==
    /\ pc = "idle"
    /\ dirExists = FALSE
    /\ files = << >>
    /\ idx = 0
    /\ all_errors = << >>
    /\ returned = << >>
    /\ exit_code = -1
    /\ crashed = FALSE
    /\ plugin = [id |-> Absent, name |-> Absent, screenshot |-> Absent,
                 repo |-> Absent, path |-> Absent]
    /\ errors = << >>
    /\ loc = [fn |-> "none"]
    /\ trace = << >>

UnitInit ==
    /\ ProgIdle
    /\ result = NoResult
    /\ \/ \E s \in UnitStrings : call = [fn |-> "is_camel_case", s |-> s]
       \/ \E h \in UrlOutcomes, g \in UrlOutcomes :
             call = [fn |-> "validate_url", head |-> h, get |-> g]
       \/ \E u \in UnitUrls, a \in UnitApi :
             call = [fn |-> "validate_repo_path", repo_url |-> u,
                     path |-> <<"sub">>, api |-> a]
       \/ \E u \in UnitUrls, p \in UnitPaths, r1 \in UnitRaw, r2 \in UnitRaw :
             call = [fn |-> "fetch_plugin_json", repo_url |-> u, path |-> p,
                     raw |-> [main |-> r1, master |-> r2, HEAD |-> r1]]

CallIsCamelCase ==
    /\ call.fn = "is_camel_case"
    /\ ~result.done
    /\ result' = [done |-> TRUE, value |-> is_camel_case(call.s)]
    /\ UNCHANGED <<call, progVars>>

CallValidateUrl ==
    /\ call.fn = "validate_url"
    /\ ~result.done
    /\ result' = [done |-> TRUE, value |-> validate_url(call.head, call.get)]
    /\ UNCHANGED <<call, progVars>>

CallValidateRepoPath ==
    /\ call.fn = "validate_repo_path"
    /\ ~result.done
    /\ result' = [done |-> TRUE,
                  value |-> validate_repo_path(call.repo_url, call.path, call.api)]
    /\ UNCHANGED <<call, progVars>>

CallFetchPluginJson ==
    /\ call.fn = "fetch_plugin_json"
    /\ ~result.done
    /\ result' = [done |-> TRUE,
                  value |-> fetch_plugin_json(call.repo_url, call.path, call.raw)]
    /\ UNCHANGED <<call, progVars>>

UnitNext ==
    \/ CallIsCamelCase
    \/ CallValidateUrl
    \/ CallValidateRepoPath
    \/ CallFetchPluginJson

SpecUnit == UnitInit /\ [][UnitNext]_vars

(***************************************************************************)
(* The program: main() and, inside its loop, validate_plugin(plugin_file). *)
(* A file of plugins/ is [kind, plugin, remote]: kind says what open and    *)
(* json.load make of it ("unreadable", "malformed", "nonobject" for JSON    *)
(* that is no object, "object"), plugin is the parsed object and remote is  *)
(* the body of plugin.json in the repository the record names.             *)
(***************************************************************************)
PluginRec(i, n, s, r, p) ==
    [id |-> i, name |-> n, screenshot |-> s, repo |-> r, path |-> p]

NoPlugin == PluginRec(Absent, Absent, Absent, Absent, Absent)

File(k, p, b) == [kind |-> k, plugin |-> p, remote |-> b]

NotCalled == <<"<not called>">>

NoLocals ==
    [plugin_name |-> Absent,
     screenshot  |-> UrlResult(FALSE, NotCalled, << >>),
     repo        |-> UrlResult(FALSE, NotCalled, << >>),
     path        |-> PathResult(FALSE, NotCalled, << >>),
     fetch       |-> FetchResult(None, NotCalled, << >>)]

\* plugin_file.stem, the default of plugin.get("name", ...).
Stem == <<"<stem>">>

\* Python truthiness of a value read from the object: a missing key read
\* with .get() is None, and None and "" are falsy.
Truthy(v) == v # Absent /\ v # << >>

MissingRequired(f) == <<"Missing required '", f, "' property">>

NotCamelCaseMsg(id) ==
    <<"ID '">> \o id \o <<"' is not in camelCase format (must start with lowercase letter and contain only letters/digits)">>

\* re.match raises TypeError when the id is not a string.
IdCheckRaises(p) == p.id # Absent /\ Truthy(p.id) /\ p.id = NonString

\* IdErrors without the report of a missing id.
IdErrorsNoMissing(p) ==
    IF p.id = Absent THEN << >>
    ELSE IF ~Truthy(p.id) THEN <<<<"ID is empty">>>>
    ELSE IF ~is_camel_case(p.id) THEN <<NotCamelCaseMsg(p.id)>>
    ELSE << >>

IdErrors(p) ==
    IF p.id = Absent THEN <<MissingRequired("id")>>
    ELSE IF ~Truthy(p.id) THEN <<<<"ID is empty">>>>
    ELSE IF ~is_camel_case(p.id) THEN <<NotCamelCaseMsg(p.id)>>
    ELSE << >>

ScreenshotUnreachable(msg) == <<"Screenshot URL unreachable:">> \o msg

RepoUnreachable(msg) == <<"Repository URL unreachable:">> \o msg

PathFailed(msg) == <<"Path validation failed:">> \o msg

FetchFailed(msg) == <<"Failed to fetch repository plugin.json:">> \o msg

NameMissingMsg == <<"Repository plugin.json is missing 'name' field">>

IdMissingMsg == <<"Repository plugin.json is missing 'id' field">>

NameMismatch(l, r) ==
    <<"Name mismatch: registry has '">> \o l
        \o <<"' but repository plugin.json has '">> \o r \o <<"'">>

IdMismatch(l, r) ==
    <<"ID mismatch: registry has '">> \o l
        \o <<"' but repository plugin.json has '">> \o r \o <<"'">>

\* repo_plugin_data.get raises AttributeError when the JSON is no object.
CrossCheckRaises(p, data) ==
    data.kind = "nondict" /\ (p.name # Absent \/ p.id # Absent)

NameCrossErrors(p, plugin_name, data) ==
    IF p.name = Absent THEN << >>
    ELSE IF ~Truthy(data.name) THEN <<NameMissingMsg>>
    ELSE IF data.name # plugin_name THEN <<NameMismatch(plugin_name, data.name)>>
    ELSE << >>

\* IdCrossErrors comparing nothing once the remote id is there.
IdCrossErrorsNoCompare(p, data) ==
    IF p.id = Absent THEN << >>
    ELSE IF ~Truthy(data.id) THEN <<IdMissingMsg>>
    ELSE << >>

IdCrossErrors(p, data) ==
    IF p.id = Absent THEN << >>
    ELSE IF ~Truthy(data.id) THEN <<IdMissingMsg>>
    ELSE IF data.id # p.id THEN <<IdMismatch(p.id, data.id)>>
    ELSE << >>

CallEvent(fn, arg) == <<"call", fn, arg>>

UrlRequests(reqs, which) == [i \in 1..Len(reqs) |-> <<reqs[i], which>>]

(***************************************************************************)
(* Answers of the network inside validate_plugin.                          *)
(***************************************************************************)
PluginHead == {Status(200), Status(404), Status(405), Raises("Timeout")}

PluginGet == {Status(200), Status(500)}

PluginApi ==
    {Resp("none", 200, [kind |-> "json", id |-> Absent, name |-> Absent]),
     Resp("none", 200, [kind |-> "emptylist", id |-> Absent, name |-> Absent]),
     Status(404)}

PluginRaw(body) ==
    {Resp("none", st, body) : st \in {200, 404, 500}} \cup {Raises("Timeout")}

(***************************************************************************)
(* main()                                                                  *)
(***************************************************************************)
Exit(code) ==
    /\ pc' = "exit"
    /\ exit_code' = code

\* An uncaught exception: Python prints the traceback and exits with 1.
Uncaught ==
    /\ Exit(1)
    /\ crashed' = TRUE

DirMissing ==
    /\ pc = "start"
    /\ ~dirExists
    /\ Exit(1)
    /\ UNCHANGED <<unitVars, dirExists, files, idx, all_errors, returned,
                   crashed, plugin, errors, loc, trace>>

NoPluginFiles ==
    /\ pc = "start"
    /\ dirExists
    /\ files = << >>
    /\ Exit(0)
    /\ UNCHANGED <<unitVars, dirExists, files, idx, all_errors, returned,
                   crashed, plugin, errors, loc, trace>>

StartLoop ==
    /\ pc = "start"
    /\ dirExists
    /\ files # << >>
    /\ pc' = "for"
    /\ idx' = 1
    /\ all_errors' = << >>
    /\ UNCHANGED <<unitVars, dirExists, files, returned, exit_code, crashed,
                   plugin, errors, loc, trace>>

CallValidatePlugin ==
    /\ pc = "for"
    /\ idx <= Len(files)
    /\ pc' = "open"
    /\ errors' = << >>
    /\ plugin' = NoPlugin
    /\ loc' = NoLocals
    /\ trace' = << >>
    /\ UNCHANGED <<unitVars, dirExists, files, idx, all_errors, returned,
                   exit_code, crashed>>

\* SummaryExitCode with the two exit codes exchanged.
SummaryExitCodeSwapped(failed) == IF failed # << >> THEN 0 ELSE 1

SummaryExitCode(failed) == IF failed # << >> THEN 1 ELSE 0

Summary ==
    /\ pc = "for"
    /\ idx > Len(files)
    /\ Exit(SummaryExitCode(all_errors))
    /\ UNCHANGED <<unitVars, dirExists, files, idx, all_errors, returned,
                   crashed, plugin, errors, loc, trace>>

\* errors = validate_plugin(plugin_file); if errors: all_errors[name] = errors
ReturnToMain ==
    /\ pc = "return"
    /\ returned' = Append(returned, errors)
    /\ all_errors' = IF errors # << >>
                     THEN Append(all_errors, [file |-> idx, errors |-> errors])
                     ELSE all_errors
    /\ idx' = idx + 1
    /\ pc' = "for"
    /\ errors' = << >>
    /\ plugin' = NoPlugin
    /\ loc' = NoLocals
    /\ trace' = << >>
    /\ UNCHANGED <<unitVars, dirExists, files, exit_code, crashed>>

(***************************************************************************)
(* validate_plugin(plugin_file)                                            *)
(***************************************************************************)
OpenFile ==
    /\ pc = "open"
    /\ LET f == files[idx]
       IN  IF f.kind = "malformed"
           THEN /\ errors' = <<<<"Invalid JSON:", "<JSONDecodeError>">>>>
                /\ pc' = "return"
                /\ UNCHANGED <<plugin, loc, exit_code, crashed>>
           ELSE IF f.kind = "unreadable"
           THEN /\ errors' = <<<<"Failed to read file:", "<OSError>">>>>
                /\ pc' = "return"
                /\ UNCHANGED <<plugin, loc, exit_code, crashed>>
           ELSE IF f.kind = "nonobject"
           THEN \* plugin.get raises AttributeError
                /\ Uncaught
                /\ UNCHANGED <<plugin, loc, errors>>
           ELSE /\ plugin' = f.plugin
                /\ loc' = [loc EXCEPT !.plugin_name =
                               IF f.plugin.name = Absent THEN Stem ELSE f.plugin.name]
                /\ pc' = "id"
                /\ UNCHANGED <<errors, exit_code, crashed>>
    /\ UNCHANGED <<unitVars, dirExists, files, idx, all_errors, returned, trace>>

CheckId ==
    /\ pc = "id"
    /\ IF IdCheckRaises(plugin)
       THEN /\ Uncaught
            /\ UNCHANGED errors
       ELSE /\ errors' = errors \o IdErrors(plugin)
            /\ pc' = "screenshot"
            /\ UNCHANGED <<exit_code, crashed>>
    /\ UNCHANGED <<unitVars, dirExists, files, idx, all_errors, returned,
                   plugin, loc, trace>>

CheckScreenshot ==
    /\ pc = "screenshot"
    /\ IF plugin.screenshot = Absent
       THEN /\ errors' = Append(errors, MissingRequired("screenshot"))
            /\ UNCHANGED <<loc, trace>>
       ELSE IF ~Truthy(plugin.screenshot)
       THEN /\ errors' = Append(errors, <<"Screenshot URL is empty">>)
            /\ UNCHANGED <<loc, trace>>
       ELSE \E head \in PluginHead, get \in PluginGet :
               LET r == validate_url(head, get)
               IN  /\ loc' = [loc EXCEPT !.screenshot = r]
                   /\ trace' = trace \o <<CallEvent("validate_url", "screenshot")>>
                                     \o UrlRequests(r.requests, "screenshot")
                   /\ errors' = IF ~r.is_valid
                                THEN Append(errors, ScreenshotUnreachable(r.error_msg))
                                ELSE errors
    /\ pc' = "repo"
    /\ UNCHANGED <<unitVars, dirExists, files, idx, all_errors, returned,
                   exit_code, crashed, plugin>>

\* "path" in plugin and plugin["path"]
PathGiven(p) == p.path # Absent /\ Truthy(p.path)

\* AfterRepoUrl going on to the nested checks whatever validate_url said.
AfterRepoUrlAlwaysNested(p, r) == IF PathGiven(p) THEN "path" ELSE "fetch"

\* Where validate_plugin goes after validate_url(repo_url) returned r.
AfterRepoUrl(p, r) ==
    IF ~r.is_valid THEN "return"
    ELSE IF PathGiven(p) THEN "path" ELSE "fetch"

CheckRepo ==
    /\ pc = "repo"
    /\ IF plugin.repo = Absent
       THEN /\ errors' = Append(errors, MissingRequired("repo"))
            /\ pc' = "return"
            /\ UNCHANGED <<loc, trace>>
       ELSE IF ~Truthy(plugin.repo)
       THEN /\ errors' = Append(errors, <<"Repository URL is empty">>)
            /\ pc' = "return"
            /\ UNCHANGED <<loc, trace>>
       ELSE \E head \in PluginHead, get \in PluginGet :
               LET r == validate_url(head, get)
               IN  /\ loc' = [loc EXCEPT !.repo = r]
                   /\ trace' = trace \o <<CallEvent("validate_url", "repo")>>
                                     \o UrlRequests(r.requests, "repo")
                   /\ errors' = IF ~r.is_valid
                                THEN Append(errors, RepoUnreachable(r.error_msg))
                                ELSE errors
                   /\ pc' = AfterRepoUrl(plugin, r)
    /\ UNCHANGED <<unitVars, dirExists, files, idx, all_errors, returned,
                   exit_code, crashed, plugin>>

\* PathErrors reporting the warning of an unsupported host as a failure.
PathErrorsWarningIsError(r) ==
    IF ~r.is_valid \/ r.error_msg # << >> THEN <<PathFailed(r.error_msg)>> ELSE << >>

\* What the path check adds to errors; a warning is printed, not added.
PathErrors(r) ==
    IF ~r.is_valid THEN <<PathFailed(r.error_msg)>> ELSE << >>

CheckPath ==
    /\ pc = "path"
    /\ \E api \in PluginApi :
          LET r == validate_repo_path(plugin.repo, plugin.path, api)
          IN  /\ loc' = [loc EXCEPT !.path = r]
              /\ trace' = trace \o <<CallEvent("validate_repo_path", "path")>>
                                \o r.requests
              /\ errors' = errors \o PathErrors(r)
    /\ pc' = "fetch"
    /\ UNCHANGED <<unitVars, dirExists, files, idx, all_errors, returned,
                   exit_code, crashed, plugin>>

\* plugin.get("path", "")
PathOrEmpty(p) == IF p.path = Absent THEN << >> ELSE p.path

FetchPluginJson ==
    /\ pc = "fetch"
    /\ \E r1 \in PluginRaw(files[idx].remote), r2 \in PluginRaw(files[idx].remote) :
          LET r == fetch_plugin_json(plugin.repo, PathOrEmpty(plugin),
                                     [main |-> r1, master |-> r2, HEAD |-> r1])
          IN  /\ loc' = [loc EXCEPT !.fetch = r]
              /\ trace' = trace \o <<CallEvent("fetch_plugin_json", "plugin.json")>>
                                \o r.requests
              /\ IF r.data = None
                 THEN /\ errors' = Append(errors, FetchFailed(r.error_msg))
                      /\ pc' = "return"
                 ELSE /\ errors' = errors
                      /\ pc' = "crosscheck"
    /\ UNCHANGED <<unitVars, dirExists, files, idx, all_errors, returned,
                   exit_code, crashed, plugin>>

CrossCheck ==
    /\ pc = "crosscheck"
    /\ IF CrossCheckRaises(plugin, loc.fetch.data)
       THEN /\ Uncaught
            /\ UNCHANGED errors
       ELSE /\ errors' = errors
                           \o NameCrossErrors(plugin, loc.plugin_name, loc.fetch.data)
                           \o IdCrossErrors(plugin, loc.fetch.data)
            /\ pc' = "return"
            /\ UNCHANGED <<exit_code, crashed>>
    /\ trace' = Append(trace, CallEvent("cross-check", "plugin.json"))
    /\ UNCHANGED <<unitVars, dirExists, files, idx, all_errors, returned,
                   plugin, loc>>

Next ==
    \/ DirMissing
    \/ NoPluginFiles
    \/ StartLoop
    \/ CallValidatePlugin
    \/ OpenFile
    \/ CheckId
    \/ CheckScreenshot
    \/ CheckRepo
    \/ CheckPath
    \/ FetchPluginJson
    \/ CrossCheck
    \/ ReturnToMain
    \/ Summary

(***************************************************************************)
(* Initial states.  ProgStart is main() about to run on a directory.       *)
(***************************************************************************)
ProgStart ==
    /\ call = NoCall
    /\ result = NoResult
    /\ pc = "start"
    /\ idx = 0
    /\ all_errors = << >>
    /\ returned = << >>
    /\ exit_code = -1
    /\ crashed = FALSE
    /\ plugin = NoPlugin
    /\ errors = << >>
    /\ loc = NoLocals
    /\ trace = << >>

Body(k, i, n) == [kind |-> k, id |-> i, name |-> n]

LocalIds == {Absent, << >>, <<"a">>, <<"a", "B">>, <<"B">>, <<"a", LF>>, NonString}

LocalNames == {Absent, <<"Foo">>}

ScreenshotUrl == Url("img.example", <<"shot.png">>)

LocalScreenshots == {Absent, << >>, ScreenshotUrl}

PluginHosts == {"github.com", "gitlab.com", "codeberg.org", "example.org"}

LocalRepos ==
    {Absent, << >>, Url("example.org", <<"owner">>)}
        \cup {Url(h, <<"owner", "repo">>) : h \in PluginHosts}

LocalPaths == {Absent, << >>, <<"sub">>}

RemoteIds == {Absent, << >>, <<"a">>, <<"a", "B">>, <<"a", LF>>}

RemoteNames == {Absent, <<"Foo">>, <<"Bar">>}

RemoteBodies ==
    {Body(k, Absent, Absent) : k \in {"malformed", "null", "nondict"}}
        \cup {Body("dict", i, n) : i \in RemoteIds, n \in RemoteNames}

NoRemote == Body("none", Absent, Absent)

AllFiles ==
    {File(k, NoPlugin, NoRemote) : k \in {"unreadable", "malformed", "nonobject"}}
        \cup {File("object", PluginRec(i, n, s, r, p), b) :
                 i \in LocalIds, n \in LocalNames, s \in LocalScreenshots,
                 r \in LocalRepos, p \in LocalPaths, b \in RemoteBodies}

\* One run of main() on a directory of at most one file: every
\* validate_plugin call the model knows.
PluginInit ==
    /\ ProgStart
    /\ \/ dirExists = FALSE /\ files = << >>
       \/ dirExists = TRUE /\ files = << >>
       \/ dirExists = TRUE /\ \E f \in AllFiles : files = <<f>>

SpecPlugin == PluginInit /\ [][Next]_vars

\* The files main() is run on when the directory holds several.
GoodPlugin ==
    PluginRec(<<"a", "B">>, <<"Foo">>, ScreenshotUrl,
              Url("codeberg.org", <<"owner", "repo">>), <<"sub">>)

MainFiles ==
    {File("unreadable", NoPlugin, NoRemote),
     File("malformed", NoPlugin, NoRemote),
     File("nonobject", NoPlugin, NoRemote),
     File("object", NoPlugin, NoRemote),
     File("object", GoodPlugin, Body("dict", <<"a", "B">>, <<"Foo">>))}

RECURSIVE SeqsUpTo(_, _)
SeqsUpTo(S, n) ==
    IF n = 0 THEN {<< >>}
    ELSE LET shorter == SeqsUpTo(S, n - 1)
         IN  shorter \cup {Append(q, x) : q \in {t \in shorter : Len(t) = n - 1},
                                          x \in S}

Init ==
    /\ ProgStart
    /\ \/ dirExists = FALSE /\ files = << >>
       \/ dirExists = TRUE /\ files \in SeqsUpTo(MainFiles, MaxFiles)

Spec == Init /\ [][Next]_vars

(***************************************************************************)
(* Claims about the functions, checked under SpecUnit.                     *)
(***************************************************************************)
Returned(fn) == call.fn = fn /\ result.done

\* The claim's own reading of "lowercase letter a-z" and "letter or digit".
ClaimLowercaseLetter(c) == c \in {"a", "b"}

ClaimLetterOrDigit(c) == c \in {"a", "b", "B", "7"}

ClaimCamelCase(s) ==
    /\ s # << >>
    /\ ClaimLowercaseLetter(s[1])
    /\ \A i \in 1..Len(s) : ClaimLetterOrDigit(s[i])

\* C9: for every string s, newline in any position included, is_camel_case(s)
\* is true iff s is non-empty, starts with a-z and holds letters and digits only.
C9_CamelCaseIffAlnum ==
    Returned("is_camel_case") => (result.value <=> ClaimCamelCase(call.s))

\* The answer validate_url judges: GET's when HEAD answered 405, else HEAD's.
FinalExchange(c) ==
    IF c.head.exc = "none" /\ c.head.status = 405 THEN c.get ELSE c.head

GetIssued(v) == \E i \in 1..Len(v.requests) : v.requests[i] = "GET"

\* C8: validate_url sends HEAD first, sends GET iff HEAD answered 405, succeeds
\* exactly when the final status is in 200..399, and on failure says "Request
\* timeout" for a timeout, "Connection error" for a connection failure and
\* "HTTP <code>" for a status outside 200..399, three different messages.
C8_ValidateUrl ==
    Returned("validate_url") =>
        LET v == result.value
            f == FinalExchange(call)
        IN  /\ v.requests[1] = "HEAD"
            /\ v.requests \in {<<"HEAD">>, <<"HEAD", "GET">>}
            /\ GetIssued(v) <=> (call.head.exc = "none" /\ call.head.status = 405)
            /\ v.is_valid <=> (f.exc = "none" /\ f.status >= 200 /\ f.status <= 399)
            /\ v.is_valid => v.error_msg = << >>
            /\ ~v.is_valid =>
                  /\ (v.error_msg = <<"Request timeout">>) <=> (f.exc = "Timeout")
                  /\ (v.error_msg = <<"Connection error">>) <=> (f.exc = "ConnectionError")
                  /\ (v.error_msg = <<"HTTP">> \o Dec(f.status)) <=> (f.exc = "none")

C8_Witness ==
    /\ Returned("validate_url")
    /\ call.head = Status(405)
    /\ call.get = Raises("Timeout")
    /\ result.value.requests = <<"HEAD", "GET">>
    /\ result.value.error_msg = <<"Request timeout">>

IsGitHubCall ==
    /\ Returned("fetch_plugin_json")
    /\ Netloc(call.repo_url) = "github.com"
    /\ Len(PathParts(call.repo_url)) >= 2

MainRequest == RawRequest("GitHub", "main")

MasterRequest == RawRequest("GitHub", "master")

Is2xx(r) == r.exc = "none" /\ r.status >= 200 /\ r.status <= 299

Is200(r) == r.exc = "none" /\ r.status = 200

\* What accepting the answer r as plugin.json returns.
Accepted(r) == IF r.body.kind = "malformed" THEN None ELSE ResponseJson(r.body)

\* C7 as stated: on github.com, main is requested first and master second,
\* master only if main gave no success response, and the first 2xx response
\* (any status 200..299) is accepted; no data if neither branch gives one.
C7_FirstTwoXxAccepted ==
    IsGitHubCall =>
        LET v == result.value
            m == call.raw["main"]
            s == call.raw["master"]
        IN  /\ v.requests[1] = MainRequest
            /\ v.requests = IF Is2xx(m) THEN <<MainRequest>>
                            ELSE <<MainRequest, MasterRequest>>
            /\ v.data = IF Is2xx(m) THEN Accepted(m)
                        ELSE IF Is2xx(s) THEN Accepted(s)
                        ELSE None

\* C7 amended: on github.com, main is requested first and master second,
\* master only if main did not answer with status 200 exactly, and the first
\* answer with status 200 is accepted (its parsed body is returned, no data
\* with the Invalid JSON error if it does not parse); with no 200 answer from
\* either branch the function returns no data and the "not found" error.
C7_First200Accepted ==
    IsGitHubCall =>
        LET v == result.value
            m == call.raw["main"]
            s == call.raw["master"]
        IN  /\ v.requests[1] = MainRequest
            /\ v.requests = IF Is200(m) THEN <<MainRequest>>
                            ELSE <<MainRequest, MasterRequest>>
            /\ v.data = IF Is200(m) THEN Accepted(m)
                        ELSE IF Is200(s) THEN Accepted(s)
                        ELSE None
            /\ (~Is200(m) /\ ~Is200(s)) => v.error_msg = PluginJsonNotFound(call.path)
            /\ (Is200(m) /\ m.body.kind = "malformed") => v.error_msg = InvalidJsonMsg

C7_Witness ==
    /\ IsGitHubCall
    /\ call.raw["main"] = Resp("none", 204, GoodBody)
    /\ call.raw["master"] = Resp("none", 200, GoodBody)
    /\ result.value.requests = <<MainRequest, MasterRequest>>
    /\ result.value.data = GoodBody

IsSupportedCall ==
    /\ Returned("fetch_plugin_json")
    /\ Family(Netloc(call.repo_url)) # "unsupported"
    /\ Len(PathParts(call.repo_url)) >= 2

IsSingleFetchCall ==
    /\ IsSupportedCall
    /\ Family(Netloc(call.repo_url)) # "GitHub"

\* The answers the call obtained, in the order of its requests.
Answers ==
    IF Family(Netloc(call.repo_url)) = "GitHub"
    THEN [i \in 1..Len(result.value.requests) |-> call.raw[GitHubBranches[i]]]
    ELSE <<call.raw["HEAD"]>>

IsMalformed200(r) == Is200(r) /\ r.body.kind = "malformed"

Is404(r) == r.exc = "none" /\ r.status = 404

\* Another fetch failure: a request exception or an error status other than 404.
IsOtherFailure(r) == r.exc # "none" \/ (r.status >= 400 /\ r.status # 404)

IsGenericFailureMsg(msg) ==
    /\ Len(msg) >= 1
    /\ msg[1] = "Failed to fetch plugin.json:"
    /\ msg # InvalidJsonMsg
    /\ msg # PluginJsonNotFound(call.path)

\* C6 as stated: on GitHub, GitLab and Gitea/Forgejo alike, a malformed body
\* gives the "Invalid JSON" error, HTTP 404 the "not found" error, and any
\* other failure a generic fetch-failure error that is neither of the two.
C6_ThreeErrorsEveryFamily ==
    IsSupportedCall =>
        LET v == result.value
            a == Answers
            last == a[Len(a)]
        IN  /\ IsMalformed200(last) => v.error_msg = InvalidJsonMsg
            /\ (\A i \in 1..Len(a) : Is404(a[i])) =>
                   v.error_msg = PluginJsonNotFound(call.path)
            /\ (\A i \in 1..Len(a) : IsOtherFailure(a[i])) =>
                   IsGenericFailureMsg(v.error_msg)

\* C6 amended: on GitLab and Gitea/Forgejo a malformed body gives the "Invalid
\* JSON" error, HTTP 404 the "not found" error and any other failure a generic
\* fetch-failure error that is neither; on GitHub a malformed body of the
\* first 200 answer gives the "Invalid JSON" error and every other failure,
\* HTTP 404 or not, gives the "not found" error.
C6_ThreeErrorsSingleFetch ==
    /\ IsSingleFetchCall =>
          LET v == result.value
              r == call.raw["HEAD"]
          IN  /\ IsMalformed200(r) => v.error_msg = InvalidJsonMsg
              /\ Is404(r) => v.error_msg = PluginJsonNotFound(call.path)
              /\ IsOtherFailure(r) => IsGenericFailureMsg(v.error_msg)
              /\ InvalidJsonMsg # PluginJsonNotFound(call.path)
    /\ IsGitHubCall =>
          LET v == result.value
              a == Answers
              last == a[Len(a)]
          IN  /\ IsMalformed200(last) => v.error_msg = InvalidJsonMsg
              /\ (\A i \in 1..Len(a) : ~Is200(a[i])) =>
                     v.error_msg = PluginJsonNotFound(call.path)

C6_Witness ==
    /\ IsGitHubCall
    /\ call.raw["main"].exc = "none"
    /\ call.raw["main"].status = 500
    /\ call.raw["master"] = Raises("Timeout")
    /\ result.value.error_msg = PluginJsonNotFound(call.path)

(***************************************************************************)
(* Claims about validate_plugin, checked under SpecPlugin, and about       *)
(* main(), checked under Spec.                                             *)
(***************************************************************************)
\* validate_plugin is about to return errors for a file that parsed to an object.
ReturnsForRecord == pc = "return" /\ files[idx].kind = "object"

\* validate_plugin is over for such a file: it returns, or it raised.
OverForRecord ==
    /\ pc = "return" \/ (pc = "exit" /\ crashed)
    /\ idx >= 1
    /\ idx <= Len(files)
    /\ files[idx].kind = "object"

Count(list, m) == Cardinality({i \in 1..Len(list) : list[i] = m})

CountStarting(list, piece) == Cardinality({i \in 1..Len(list) : list[i][1] = piece})

InTrace(e) == \E i \in 1..Len(trace) : trace[i] = e

RequiredFields == {"id", "screenshot", "repo"}

\* C4: for a parsed record, the returned list holds exactly one "Missing
\* required" entry for each of id, screenshot, repo that is absent and none
\* for a field that is present, whatever the other fields are.
C4_MissingRequired ==
    ReturnsForRecord =>
        /\ \A f \in RequiredFields :
              Count(errors, MissingRequired(f)) = IF plugin[f] = Absent THEN 1 ELSE 0
        /\ CountStarting(errors, "Missing required '")
              = Cardinality({f \in RequiredFields : plugin[f] = Absent})

C4_Witness ==
    /\ ReturnsForRecord
    /\ plugin.id = Absent
    /\ plugin.screenshot = Absent
    /\ plugin.repo # Absent
    /\ loc.repo.is_valid
    /\ InTrace(CallEvent("cross-check", "plugin.json"))
    /\ CountStarting(errors, "Missing required '") = 2

RepoReachable == plugin.repo # Absent /\ Truthy(plugin.repo) /\ loc.repo.is_valid

IsNestedRequest(e) == e[1] = "GET" /\ e[2] \in {"api", "raw"}

\* C3: for a file that parses, the path check (when a non-empty path is set)
\* and the plugin.json fetch with its cross-check are performed exactly when
\* repo is present, non-empty and found reachable; an id error or an
\* unreachable screenshot stays in the list and does not prevent them, and
\* after a failed repo check no path or plugin.json request is issued.
C3_NestedChecks ==
    OverForRecord =>
        /\ InTrace(CallEvent("fetch_plugin_json", "plugin.json")) <=> RepoReachable
        /\ InTrace(CallEvent("validate_repo_path", "path"))
              <=> (RepoReachable /\ PathGiven(plugin))
        /\ InTrace(CallEvent("cross-check", "plugin.json"))
              <=> (RepoReachable /\ loc.fetch.data # None)
        /\ (\E i \in 1..Len(trace) : IsNestedRequest(trace[i])) => RepoReachable
        /\ pc = "return" =>
              /\ \A i \in 1..Len(IdErrors(plugin)) : Count(errors, IdErrors(plugin)[i]) = 1
              /\ (Truthy(plugin.screenshot) /\ ~loc.screenshot.is_valid) =>
                    Count(errors, ScreenshotUnreachable(loc.screenshot.error_msg)) = 1

C3_Witness ==
    /\ ReturnsForRecord
    /\ plugin.id = <<"B">>
    /\ Truthy(plugin.screenshot)
    /\ ~loc.screenshot.is_valid
    /\ RepoReachable
    /\ InTrace(CallEvent("validate_repo_path", "path"))
    /\ InTrace(CallEvent("cross-check", "plugin.json"))
    /\ Count(errors, NotCamelCaseMsg(<<"B">>)) = 1
    /\ Count(errors, ScreenshotUnreachable(<<"Request timeout">>)) = 1

\* A reachable repo URL host/owner/repo on an unsupported host, path set.
UnsupportedHostWithPath ==
    /\ ReturnsForRecord
    /\ RepoReachable
    /\ Family(Netloc(plugin.repo)) = "unsupported"
    /\ Len(PathParts(plugin.repo)) >= 2
    /\ PathGiven(plugin)

UnsupportedMsg == <<"Unsupported hosting service:", Netloc(plugin.repo)>>

\* C2 as stated: a reachable repo (host/owner/repo) on an unsupported host
\* with a non-empty path validates with a warning and the unsupported host
\* adds no entry to the list returned for the plugin.
C2_UnsupportedHostNoError ==
    UnsupportedHostWithPath =>
        /\ loc.path.is_valid
        /\ CountStarting(errors, "Path validation failed:") = 0
        /\ Count(errors, FetchFailed(UnsupportedMsg)) = 0

\* C2 amended: for a reachable repo URL of the form host/owner/repo on an
\* unsupported host with a non-empty path, the path check sends no request,
\* succeeds with a warning and adds no "Path validation failed" entry; the
\* plugin.json fetch that follows adds one "Unsupported hosting service"
\* entry, so the list returned for the plugin is not empty.
C2_UnsupportedHostPathWarning ==
    UnsupportedHostWithPath =>
        /\ loc.path.is_valid
        /\ loc.path.error_msg # << >>
        /\ loc.path.error_msg[1] = "Warning: Path validation skipped for"
        /\ loc.path.requests = << >>
        /\ CountStarting(errors, "Path validation failed:") = 0
        /\ Count(errors, FetchFailed(UnsupportedMsg)) = 1

C2_Witness ==
    /\ UnsupportedHostWithPath
    /\ loc.path.is_valid
    /\ errors = <<FetchFailed(UnsupportedMsg)>>

\* The cross-check ran to its end on a record that has an id.
IdCrossChecked ==
    /\ ReturnsForRecord
    /\ InTrace(CallEvent("cross-check", "plugin.json"))
    /\ plugin.id # Absent

IdCrossCount ==
    Count(errors, IdMissingMsg) + CountStarting(errors, "ID mismatch: registry has '")

\* C5 as stated: with plugin.json fetched and a local id, there is exactly
\* one id cross-check error if the remote id is absent or differs from the
\* local one ("ID mismatch" naming both when they differ, "missing 'id'"
\* when the remote lacks it) and none when the two ids are equal.
C5_IdCrossCheck ==
    IdCrossChecked =>
        LET l == plugin.id
            r == loc.fetch.data.id
        IN  /\ (r = Absent \/ r # l) => IdCrossCount = 1
            /\ (r # Absent /\ r # l) => Count(errors, IdMismatch(l, r)) = 1
            /\ r = Absent => Count(errors, IdMissingMsg) = 1
            /\ r = l => IdCrossCount = 0

\* C5 amended: with plugin.json fetched and a local id, a remote id that is
\* absent or empty gives exactly one "missing 'id' field" error and no
\* mismatch error, even if the local id is empty too; a non-empty remote id
\* that differs from the local one gives exactly one "ID mismatch" error
\* naming both; a non-empty remote id equal to the local one gives none.
C5_IdCrossCheckFalsyRemote ==
    IdCrossChecked =>
        LET l == plugin.id
            r == loc.fetch.data.id
        IN  /\ ~Truthy(r) => Count(errors, IdMissingMsg) = 1 /\ IdCrossCount = 1
            /\ (Truthy(r) /\ r # l) =>
                  Count(errors, IdMismatch(l, r)) = 1 /\ IdCrossCount = 1
            /\ (Truthy(r) /\ r = l) => IdCrossCount = 0

C5_Witness ==
    /\ IdCrossChecked
    /\ plugin.id = <<"a">>
    /\ loc.fetch.data.id = <<"a", "B">>
    /\ Count(errors, IdMismatch(<<"a">>, <<"a", "B">>)) = 1

\* What a pass promises; idIsCamel is the reading of "the id is camelCase".
PassPromises(idIsCamel) ==
    /\ files[idx].kind = "object"
    /\ plugin.id # Absent
    /\ Truthy(plugin.id)
    /\ idIsCamel
    /\ plugin.screenshot # Absent
    /\ Truthy(plugin.screenshot)
    /\ loc.screenshot.is_valid
    /\ RepoReachable
    /\ Family(Netloc(plugin.repo)) # "unsupported"
    /\ InTrace(CallEvent("fetch_plugin_json", "plugin.json"))
    /\ loc.fetch.data.kind = "dict"
    /\ loc.fetch.data.id = plugin.id
    /\ plugin.name # Absent => loc.fetch.data.name = plugin.name
    /\ PathGiven(plugin) => loc.path.is_valid

\* C10: whenever validate_plugin returns an empty list, the file parsed, its
\* id is present, non-empty and camelCase (a lowercase letter first, letters
\* and digits only), screenshot and repo are present, non-empty and were found
\* reachable, the host is supported, plugin.json was fetched and parsed, the
\* remote id and (if the record has one) name equal the local ones, and the
\* path check, if a path is set, did not fail.
C10_PassIsSound ==
    (pc = "return" /\ errors = << >>) => PassPromises(ClaimCamelCase(plugin.id))

\* C10 with camelCase read as is_camel_case decides it: what remains of the
\* claim once the newline that the pattern's $ lets through is set aside.
PassIsSoundUpToPattern ==
    (pc = "return" /\ errors = << >>) => PassPromises(is_camel_case(plugin.id))

AllReturnedEmpty ==
    /\ Len(returned) = Len(files)
    /\ \A i \in 1..Len(returned) : returned[i] = << >>

SomeReturnedNonEmpty == \E i \in 1..Len(returned) : returned[i] # << >>

====
